---- MODULE Spec2Model ----
(***************************************************************************)
(* Model of fetch_stargazers.py: the city slot allocator                   *)
(* (generate_city_slots), the slot walk that binds households and trees    *)
(* (generate_houses), the registry file written by main, and the manual    *)
(* add_user / recalculate_layout path.                                     *)
(*                                                                         *)
(* Python sequences are 0-based; TLA+ sequences are 1-based.  At(s, i) is  *)
(* Python's s[i].  Python tuples (x, y) are <<x, y>>.  The allocator's     *)
(* coordinates are floats with integral values (3.0, -5.0, ...); they are  *)
(* modelled as integers.                                                   *)
(***************************************************************************)
EXTENDS Integers, Sequences, FiniteSets, TLC

\* ---- bounds of the model ----
MaxLimit == 70
MaxRoster == 2
MaxStamp == 2
MaxCount == 20
MaxFetch == 3
MaxPageLen == 2

\* ---- constants of generate_city_slots ----
HOUSE_GAP == 2
STREET_GAP == 2
MAIN_AVENUE_WIDTH == 6
CLUSTER_ROWS == 4
CLUSTER_COLS == 4
RING_MIN == 0 - 2
RING_MAX == 2
HOUSES_PER_BLOCK == CLUSTER_ROWS * CLUSTER_COLS
BLOCK_WIDTH == (CLUSTER_COLS - 1) * HOUSE_GAP
BLOCK_HEIGHT == (CLUSTER_ROWS - 1) * HOUSE_GAP
BLOCK_STRIDE_X == BLOCK_WIDTH + STREET_GAP
BLOCK_STRIDE_Y == BLOCK_HEIGHT + STREET_GAP

At(s, i) == s[i + 1]

Max(a, b) == IF a >= b THEN a ELSE b
Min(a, b) == IF a <= b THEN a ELSE b

\* math.ceil(a / b) for b > 0
CeilDiv(a, b) == IF a % b = 0 THEN a \div b ELSE (a \div b) + 1

\* quadrant multipliers: NE, NW, SW, SE
quadrants == << <<1, 0 - 1>>, <<0 - 1, 0 - 1>>, <<0 - 1, 1>>, <<1, 1>> >>

total_blocks(lim) == CeilDiv(lim, HOUSES_PER_BLOCK)

\* for x in range(layer + 1): append (x, layer - x)
RECURSIVE LayerPositions(_, _)
LayerPositions(layer, x) ==
    IF x > layer THEN << >>
    ELSE << <<x, layer - x>> >> \o LayerPositions(layer, x + 1)

\* while len(abstract_block_positions) * 4 < total_blocks + 4: add one layer
RECURSIVE AbstractLayers(_, _, _)
AbstractLayers(acc, layer, tb) ==
    IF Len(acc) * 4 < tb + 4
    THEN AbstractLayers(acc \o LayerPositions(layer, 0), layer + 1, tb)
    ELSE acc

abstract_block_positions(lim) == AbstractLayers(<< >>, 0, total_blocks(lim))

\* The facing appended for a house at x.
FacingOf(x) == IF x > 0 THEN "left" ELSE "right"

\* World position of cell i of the block at abstract position (bx, by) in
\* quadrant q_idx (0-based).
HousePos(bx, by, q_idx, i) ==
    LET qx == At(quadrants, q_idx)[1]
        qy == At(quadrants, q_idx)[2]
        base_x == (MAIN_AVENUE_WIDTH \div 2) * qx
        base_y == (MAIN_AVENUE_WIDTH \div 2) * qy
        block_start_x == base_x + (bx * BLOCK_STRIDE_X * qx)
        block_start_y == base_y + (by * BLOCK_STRIDE_Y * qy)
        ix == i % CLUSTER_COLS
        iy == i \div CLUSTER_COLS
    IN  <<block_start_x + (ix * HOUSE_GAP * qx), block_start_y + (iy * HOUSE_GAP * qy)>>

\* The inner loop "for i in range(HOUSES_PER_BLOCK)": st is the record of the
\* loop's variables [slots, facing_dir, houses_placed].  The facing is
\* appended twice for every slot appended (the block at lines 264-268 is
\* repeated at lines 270-274).
RECURSIVE FillBlock(_, _, _, _, _, _)
FillBlock(st, bx, by, q_idx, i, limit_remaining) ==
    IF i >= HOUSES_PER_BLOCK \/ st.houses_placed >= limit_remaining
    THEN st
    ELSE LET pos == HousePos(bx, by, q_idx, i)
             f == FacingOf(pos[1])
         IN  FillBlock([st EXCEPT !.slots = Append(@, pos),
                                  !.facing_dir = @ \o <<f, f>>,
                                  !.houses_placed = @ + 1],
                       bx, by, q_idx, i + 1, limit_remaining)

get_r_coordOdd(idx) == IF idx = 0 THEN 0 ELSE 1 + idx * 8
get_r_coord(idx) == IF idx = 0 THEN 0 ELSE 2 + idx * 8

\* The perimeter of one block, rasterised.
BlockRoads(bx, by, q_idx) ==
    LET qx == At(quadrants, q_idx)[1]
        qy == At(quadrants, q_idx)[2]
        rx_in == get_r_coord(bx) * qx
        rx_out == get_r_coord(bx + 1) * qx
        ry_in == get_r_coord(by) * qy
        ry_out == get_r_coord(by + 1) * qy
        sx == Min(rx_in, rx_out)
        ex == Max(rx_in, rx_out)
        sy == Min(ry_in, ry_out)
        ey == Max(ry_in, ry_out)
    IN  {<<x, ry_in>> : x \in sx..ex} \cup {<<x, ry_out>> : x \in sx..ex}
        \cup {<<rx_in, y>> : y \in sy..ey} \cup {<<rx_out, y>> : y \in sy..ey}

\* One iteration of "for q_idx in range(4)" for the abstract position
\* (bx, by): skipped once houses_placed >= limit (the break at line 235).
BlockStepShort(st, bx, by, q_idx, lim) ==
    IF st.houses_placed >= lim
    THEN st
    ELSE LET filled == FillBlock(st, bx, by, q_idx, 0, lim - 2)
         IN  [filled EXCEPT !.road_tiles = @ \cup BlockRoads(bx, by, q_idx)]
BlockStep(st, bx, by, q_idx, lim) ==
    IF st.houses_placed >= lim
    THEN st
    ELSE LET filled == FillBlock(st, bx, by, q_idx, 0, lim - 1)
         IN  [filled EXCEPT !.road_tiles = @ \cup BlockRoads(bx, by, q_idx)]

\* The tiles the post-processing removes: (0, i) and (i, 0) for i in -2..2.
ClearedTiles == {<<0, k>> : k \in RING_MIN..RING_MAX} \cup {<<k, 0>> : k \in RING_MIN..RING_MAX}

RingTiles ==
    {<<x, RING_MIN>> : x \in RING_MIN..RING_MAX} \cup {<<x, RING_MAX>> : x \in RING_MIN..RING_MAX}
    \cup {<<RING_MIN, y>> : y \in RING_MIN..RING_MAX} \cup {<<RING_MAX, y>> : y \in RING_MIN..RING_MAX}

PostProcessNoClear(road_tiles) == road_tiles \cup RingTiles
PostProcess(road_tiles) == (road_tiles \ ClearedTiles) \cup RingTiles

\* The (bx, by, q_idx) iterations of the two nested loops, in order.
RECURSIVE BlockJobsFrom(_, _)
BlockJobsFrom(abs, k) ==
    IF k > Len(abs) THEN << >>
    ELSE [q \in 1..4 |-> <<abs[k][1], abs[k][2], q - 1>>] \o BlockJobsFrom(abs, k + 1)

BlockJobsRotated(lim) ==
    LET abs == abstract_block_positions(lim)
    IN  [n \in 1..(4 * Len(abs)) |->
            <<abs[((n - 1) \div 4) + 1][1], abs[((n - 1) \div 4) + 1][2], ((n - 1) + lim) % 4>>]
BlockJobs(lim) == BlockJobsFrom(abstract_block_positions(lim), 1)

\* The allocator's local state after "slots.append((0, 0))".
EntryState ==
    [slots |-> << <<0, 0>> >>, facing_dir |-> <<"down">>, houses_placed |-> 0, road_tiles |-> {}]

RECURSIVE RunBlocks(_, _, _, _)
RunBlocks(st, jobs, k, lim) ==
    IF k > Len(jobs) THEN st
    ELSE RunBlocks(BlockStep(st, jobs[k][1], jobs[k][2], jobs[k][3], lim), jobs, k + 1, lim)

\* generate_city_slots as a function of limit.  The result's arity is the
\* length of the returned tuple: 2 on the early return, 3 otherwise.
generate_city_slots(lim) ==
    IF lim <= 1
    THEN [arity |-> 2, slots |-> EntryState.slots, facings |-> EntryState.facing_dir, roads |-> {}]
    ELSE LET st == RunBlocks(EntryState, BlockJobs(lim), 1, lim)
         IN  [arity |-> 3, slots |-> st.slots, facings |-> st.facing_dir,
              roads |-> PostProcess(st.road_tiles)]

\* ---- state ----
VARIABLES
    \* generate_city_slots, one call: its argument, its position, its locals
    \* (slots, facing_dir, houses_placed, road_tiles), the index of the next
    \* (bx, by, q_idx) iteration, and the tuple it returned
    limit, apc, ast, job, result,
    \* one run of main / add_user: position, the fetched roster and contributor
    \* set, generate_houses' locals, and the two files on disk
    pc, stargazers, contributors, full_list, city, processed_houses,
    stargazer_idx, slot_i, houses_file, roads_file,
    \* who wrote houses_file last ("main", "add_user", "none") and, for main,
    \* the roster as fetched and the contributor set it was given
    written_from,
    \* get_stargazers / get_followers, one call: which of the two, its limit
    \* argument, its position, its locals page, attempts, success and the list
    \* it accumulates, the number of urlopen calls made for each page, and the
    \* value it returned
    fetcher, flimit, fpc, page, attempts, success, fetched, requests, roster_out

avars == <<limit, apc, ast, job, result>>
mvars == <<pc, stargazers, contributors, full_list, city, processed_houses,
           stargazer_idx, slot_i, houses_file, roads_file, written_from>>
fvars == <<fetcher, flimit, fpc, page, attempts, success, fetched, requests, roster_out>>
vars == <<limit, apc, ast, job, result,
          pc, stargazers, contributors, full_list, city, processed_houses,
          stargazer_idx, slot_i, houses_file, roads_file, written_from,
          fetcher, flimit, fpc, page, attempts, success, fetched, requests, roster_out>>

NoResult == [arity |-> 0, slots |-> << >>, facings |-> << >>, roads |-> {}]
NoLocals == [slots |-> << >>, facing_dir |-> << >>, houses_placed |-> 0, road_tiles |-> {}]

\* stargazers_houses.json and roads.json before the first run, and the
\* record of who wrote them.
NoFile == [exists |-> FALSE, houses |-> << >>]
NoRoads == [exists |-> FALSE, tiles |-> {}]
NotWritten == [by |-> "none", roster |-> << >>, contributors |-> {}]

\* No run of main or add_user in progress, no file on disk.
MainIdle ==
    /\ pc = "idle"
    /\ stargazers = << >>
    /\ contributors = {}
    /\ full_list = << >>
    /\ city = NoResult
    /\ processed_houses = << >>
    /\ stargazer_idx = 0
    /\ slot_i = 0
    /\ houses_file = NoFile
    /\ roads_file = NoRoads
    /\ written_from = NotWritten

\* No fetch being stepped.
NotReturned == [returned |-> FALSE, roster |-> << >>]

FetchIdle ==
    /\ fetcher = "none"
    /\ flimit = 0
    /\ fpc = "idle"
    /\ page = 1
    /\ attempts = 0
    /\ success = FALSE
    /\ fetched = << >>
    /\ requests = << >>
    /\ roster_out = NotReturned

\* No call of generate_city_slots being stepped.
AllocIdle ==
    /\ limit = 0
    /\ apc = "idle"
    /\ ast = NoLocals
    /\ job = 0
    /\ result = NoResult

\* ---- generate_city_slots, stepped block by block ----
InitSlots ==
    /\ limit \in (0 - 1)..MaxLimit
    /\ apc = "entry"
    /\ ast = NoLocals
    /\ job = 0
    /\ result = NoResult
    /\ MainIdle
    /\ FetchIdle

\* Lines 144-153: the anchor slot, and the early return for limit <= 1.
EarlyReturn ==
    /\ apc = "entry"
    /\ limit <= 1
    /\ ast' = EntryState
    /\ result' = [arity |-> 2, slots |-> EntryState.slots,
                  facings |-> EntryState.facing_dir, roads |-> {}]
    /\ apc' = "returned"
    /\ UNCHANGED <<limit, job>>
    /\ UNCHANGED mvars
    /\ UNCHANGED fvars

\* Lines 144-228: the anchor slot and the set-up of the block loops.
EnterBlocks ==
    /\ apc = "entry"
    /\ limit > 1
    /\ ast' = EntryState
    /\ job' = 1
    /\ apc' = "blocks"
    /\ UNCHANGED <<limit, result>>
    /\ UNCHANGED mvars
    /\ UNCHANGED fvars

\* Lines 231-305: one iteration of the q_idx loop.
PlaceBlock ==
    /\ apc = "blocks"
    /\ job <= Len(BlockJobs(limit))
    /\ LET j == BlockJobs(limit)[job]
       IN  ast' = BlockStep(ast, j[1], j[2], j[3], limit)
    /\ job' = job + 1
    /\ UNCHANGED <<limit, apc, result>>
    /\ UNCHANGED mvars
    /\ UNCHANGED fvars

\* Lines 307-331: the ring road and the return.
FinishSlots ==
    /\ apc = "blocks"
    /\ job > Len(BlockJobs(limit))
    /\ ast' = [ast EXCEPT !.road_tiles = PostProcess(@)]
    /\ result' = [arity |-> 3, slots |-> ast.slots, facings |-> ast.facing_dir,
                  roads |-> PostProcess(ast.road_tiles)]
    /\ apc' = "returned"
    /\ UNCHANGED <<limit, job>>
    /\ UNCHANGED mvars
    /\ UNCHANGED fvars

NextSlots == EarlyReturn \/ EnterBlocks \/ PlaceBlock \/ FinishSlots

SpecSlots == InitSlots /\ [][NextSlots]_vars

\* The stepped call and the function agree on what is returned.
SlotsStepsAgree == apc = "returned" => result = generate_city_slots(limit)

\* ---- the Attribute Deriver ----
owner_name == "owner"

\* The identities a fetched roster can hold, and the names add_user is given.
Logins == {"owner", "alice"}
AddNames == {"alice", "bob"}

\* hashlib.md5(s.encode()).hexdigest()[:6], digit by digit, of the identities
\* of the model.
hex_dig(s) ==
    CASE s = "owner" -> <<7, 2, 1, 2, 2, 12>>
      [] s = "alice" -> <<6, 3, 8, 4, 14, 2>>
      [] s = "bob" -> <<9, 15, 9, 13, 5, 1>>

\* "#" + hex_dig[:6]
string_to_color(s) == <<"#">> \o hex_dig(s)

\* [int(hex_dig[i], 16) % 4 for i in range(5)]
string_to_pseudo_random(s) == [k \in 1..5 |-> hex_dig(s)[k] % 4]

\* ---- generate_houses ----
\* A roster entry: {"user": {"login": ...}, "starred_at": ...}.  starred_at 0
\* is an entry without the key (a follower), which sorts as '0', below every
\* timestamp.
Entry(login, stamp) == [login |-> login, starred_at |-> stamp]

\* list.sort(key=starred_at): a stable insertion sort.
RECURSIVE InsertByStamp(_, _)
InsertByStamp(sorted, e) ==
    IF sorted = << >> THEN <<e>>
    ELSE IF sorted[Len(sorted)].starred_at <= e.starred_at
         THEN Append(sorted, e)
         ELSE Append(InsertByStamp(SubSeq(sorted, 1, Len(sorted) - 1), e), sorted[Len(sorted)])

SortByStampNone(roster) == roster
RECURSIVE SortByStamp(_)
SortByStamp(roster) ==
    IF roster = << >> THEN << >>
    ELSE InsertByStamp(SortByStamp(SubSeq(roster, 1, Len(roster) - 1)), roster[Len(roster)])

\* The owner's mock entry; its dummy date is never compared.
owner_entry == Entry(owner_name, 0)

FullList(roster) == <<owner_entry>> \o SortByStamp(roster)

\* int(n * 1.3), raised to n + 5
estimated_totalNoBuffer(n) == (n * 13) \div 10
estimated_total(n) == Max((n * 13) \div 10, n + 5)

Tree(x, y) ==
    [kind |-> "tree", x |-> x, y |-> y, username |-> "", color |-> << >>,
     styles |-> << >>, facing |-> "none", has_terrace |-> FALSE]

\* The house record of generate_houses; styles is (roofStyle, doorStyle,
\* windowStyle, chimneyStyle, wallStyle).
HouseNoTerrace(username, x, y, facing, contribs) ==
    [kind |-> "house", x |-> x, y |-> y, username |-> username,
     color |-> string_to_color(username), styles |-> string_to_pseudo_random(username),
     facing |-> facing, has_terrace |-> FALSE]
HouseStyledBySlot(username, x, y, facing, contribs) ==
    [kind |-> "house", x |-> x, y |-> y, username |-> username,
     color |-> string_to_color(username),
     styles |-> [k \in 1..5 |-> (hex_dig(username)[k] + x) % 4],
     facing |-> facing, has_terrace |-> username \in contribs]
House(username, x, y, facing, contribs) ==
    [kind |-> "house", x |-> x, y |-> y, username |-> username,
     color |-> string_to_color(username), styles |-> string_to_pseudo_random(username),
     facing |-> facing, has_terrace |-> username \in contribs]

\* The tree rule of line 374, before the random draw.
MayPlaceTreeAnywhere(i, remaining_slots, remaining_houses) == TRUE
MayPlaceTreeNoSpare(i, remaining_slots, remaining_houses) == i > 0
MayPlaceTree(i, remaining_slots, remaining_houses) ==
    i > 0 /\ remaining_slots > remaining_houses

remaining_slots == Len(city.slots) - slot_i
remaining_houses == Len(full_list) - stargazer_idx

\* The loop of line 359 has another iteration to run.
WalkContinues == slot_i < Len(city.slots) /\ stargazer_idx < Len(full_list)

\* Lines 336-357: sort, prepend the owner, size and call the allocator.
GenerateHousesEntry ==
    /\ pc = "start"
    /\ full_list' = FullList(stargazers)
    /\ city' = generate_city_slots(estimated_total(Len(FullList(stargazers))))
    /\ processed_houses' = << >>
    /\ stargazer_idx' = 0
    /\ slot_i' = 0
    /\ pc' = "walk"
    /\ UNCHANGED <<stargazers, contributors, houses_file, roads_file, written_from>>
    /\ UNCHANGED avars
    /\ UNCHANGED fvars

\* Lines 359-383: the draw came out below 0.2 where a tree is allowed.
PlaceTree ==
    /\ pc = "walk"
    /\ WalkContinues
    /\ MayPlaceTree(slot_i, remaining_slots, remaining_houses)
    /\ processed_houses' = Append(processed_houses,
                                  Tree(At(city.slots, slot_i)[1], At(city.slots, slot_i)[2]))
    /\ slot_i' = slot_i + 1
    /\ UNCHANGED <<pc, stargazers, contributors, full_list, city, stargazer_idx,
                   houses_file, roads_file, written_from>>
    /\ UNCHANGED avars
    /\ UNCHANGED fvars

\* Lines 359-377, 385-408: no tree (not allowed, or the draw came out at or
\* above 0.2); the next pending household takes the slot.
PlaceHouse ==
    /\ pc = "walk"
    /\ WalkContinues
    /\ processed_houses' =
          Append(processed_houses,
                 House(At(full_list, stargazer_idx).login,
                       At(city.slots, slot_i)[1], At(city.slots, slot_i)[2],
                       At(city.facings, slot_i), contributors))
    /\ stargazer_idx' = stargazer_idx + 1
    /\ slot_i' = slot_i + 1
    /\ UNCHANGED <<pc, stargazers, contributors, full_list, city,
                   houses_file, roads_file, written_from>>
    /\ UNCHANGED avars
    /\ UNCHANGED fvars

\* Lines 410, 582-593: the loop is over; main dumps houses and roads.
WriteFiles ==
    /\ pc = "walk"
    /\ ~WalkContinues
    /\ houses_file' = [exists |-> TRUE, houses |-> processed_houses]
    /\ roads_file' = [exists |-> TRUE, tiles |-> city.roads]
    /\ written_from' = [by |-> "main", roster |-> stargazers, contributors |-> contributors]
    /\ pc' = "idle"
    /\ stargazers' = << >>
    /\ contributors' = {}
    /\ full_list' = << >>
    /\ city' = NoResult
    /\ processed_houses' = << >>
    /\ stargazer_idx' = 0
    /\ slot_i' = 0
    /\ UNCHANGED avars
    /\ UNCHANGED fvars

\* ---- the rosters a run is given ----
RECURSIVE SeqsUpTo(_, _)
SeqsUpTo(S, n) ==
    IF n = 0 THEN {<< >>}
    ELSE LET shorter == SeqsUpTo(S, n - 1)
         IN  shorter \cup {Append(r, e) : r \in shorter, e \in S}

\* Rosters of one run taken alone: any entries, repeated logins included.
RunRosters == SeqsUpTo({Entry(l, t) : l \in Logins, t \in 0..MaxStamp}, MaxRoster)

\* Rosters of successive runs: each identity at most once (the owner may have
\* starred the repository), with the time it starred.
StarStamp(l) == IF l = owner_name THEN 2 ELSE 1
LiveRosters ==
    {r \in SeqsUpTo({Entry(l, StarStamp(l)) : l \in Logins}, Cardinality(Logins)) :
        \A a, b \in 1..Len(r) : r[a].login = r[b].login => a = b}

\* ---- main ----
\* Lines 572-578: the roster and the contributor set come back from the
\* fetches (an empty contributor set for a profile repository).
Main(roster, contribs) ==
    /\ pc = "idle"
    /\ stargazers' = roster
    /\ contributors' = contribs
    /\ pc' = "start"
    /\ UNCHANGED <<full_list, city, processed_houses, stargazer_idx, slot_i,
                   houses_file, roads_file, written_from>>
    /\ UNCHANGED avars
    /\ UNCHANGED fvars

\* ---- add_user and recalculate_layout ----
\* Lines 417-421: entry i (0-based) takes slot i and facings[i].
Relayout(houses, c) ==
    [k \in 1..Len(houses) |->
        IF k <= Len(c.slots)
        THEN [houses[k] EXCEPT !.x = c.slots[k][1], !.y = c.slots[k][2], !.facing = c.facings[k]]
        ELSE houses[k]]

\* Lines 449-463
new_house(username) ==
    [kind |-> "house", x |-> 0, y |-> 0, username |-> username,
     color |-> string_to_color(username), styles |-> string_to_pseudo_random(username),
     facing |-> "down", has_terrace |-> FALSE]

\* Line 444: any(h.get('username') == username for h in houses)
UserExists(houses, username) == \E k \in 1..Len(houses) : houses[k].username = username

\* add_user(username); plant is the outcome of the draw of line 466.  Without
\* the file, or with the user already in it, it returns and changes nothing.
\* recalculate_layout unpacks three values: a two-value return is a ValueError
\* before anything is written.
AddUser(username, plant) ==
    /\ pc = "idle"
    /\ IF ~houses_file.exists
       THEN UNCHANGED <<pc, houses_file, roads_file, written_from>>
       ELSE IF UserExists(houses_file.houses, username)
       THEN UNCHANGED <<pc, houses_file, roads_file, written_from>>
       ELSE LET houses == (IF plant THEN Append(houses_file.houses, Tree(0, 0))
                                    ELSE houses_file.houses)
                              \o <<new_house(username)>>
                c == generate_city_slots(Len(houses))
            IN  IF c.arity = 3
                THEN /\ houses_file' = [exists |-> TRUE, houses |-> Relayout(houses, c)]
                     /\ roads_file' = [exists |-> TRUE, tiles |-> c.roads]
                     /\ written_from' = [by |-> "add_user", roster |-> << >>, contributors |-> {}]
                     /\ pc' = pc
                ELSE /\ pc' = "crashed"
                     /\ UNCHANGED <<houses_file, roads_file, written_from>>
    /\ UNCHANGED <<stargazers, contributors, full_list, city, processed_houses,
                   stargazer_idx, slot_i>>
    /\ UNCHANGED avars
    /\ UNCHANGED fvars

\* ---- specifications ----
\* Successive runs of the script against the files on disk.
Init == MainIdle /\ AllocIdle /\ FetchIdle

Next ==
    \/ \E roster \in LiveRosters, contribs \in SUBSET Logins : Main(roster, contribs)
    \/ GenerateHousesEntry
    \/ PlaceTree
    \/ PlaceHouse
    \/ WriteFiles
    \/ \E username \in AddNames, plant \in BOOLEAN : AddUser(username, plant)

Spec == Init /\ [][Next]_vars

\* One call of generate_houses on any roster, written out by main.
InitRun ==
    /\ pc = "start"
    /\ stargazers \in RunRosters
    /\ contributors \in SUBSET Logins
    /\ full_list = << >>
    /\ city = NoResult
    /\ processed_houses = << >>
    /\ stargazer_idx = 0
    /\ slot_i = 0
    /\ houses_file = NoFile
    /\ roads_file = NoRoads
    /\ written_from = NotWritten
    /\ AllocIdle
    /\ FetchIdle

NextRun == GenerateHousesEntry \/ PlaceTree \/ PlaceHouse \/ WriteFiles

SpecRun == InitRun /\ [][NextRun]_vars

\* ---- properties of generate_city_slots (SpecSlots) ----
Abs(n) == IF n < 0 THEN 0 - n ELSE n

\* C1: for every capacity N >= 1 the returned slot sequence has at least N
\* elements, its element 0 is the origin and the facing at index 0 is "down".
C1_SlotsCoverLimit ==
    (apc = "returned" /\ limit >= 1) =>
        /\ Len(result.slots) >= limit
        /\ At(result.slots, 0) = <<0, 0>>
        /\ At(result.facings, 0) = "down"

\* A call with N = 18 has returned: 18 slots, the last one the first cell of
\* the north-west block.
C1_Witness ==
    /\ apc = "returned"
    /\ limit = 18
    /\ Len(result.slots) = 18
    /\ At(result.slots, 17) = <<0 - 3, 0 - 3>>

\* C2: for every non-anchor slot index i, facings[i] is "left" iff the
\* x-coordinate of slots[i] is strictly positive, and "right" otherwise.
C2_FacingsMatchSlots ==
    apc = "returned" =>
        \A i \in 1..(Len(result.slots) - 1) :
            /\ i < Len(result.facings)
            /\ (At(result.slots, i)[1] > 0) => At(result.facings, i) = "left"
            /\ (At(result.slots, i)[1] <= 0) => At(result.facings, i) = "right"

\* C3: for every capacity N >= 2 the road set holds every tile of the square
\* ring at radius 2 around the origin and no tile strictly inside it.
C3_RingClosedAndClear ==
    (apc = "returned" /\ limit >= 2) =>
        /\ \A x \in (0 - 2)..2, y \in (0 - 2)..2 :
              Max(Abs(x), Abs(y)) = 2 => <<x, y>> \in result.roads
        /\ \A t \in result.roads : Max(Abs(t[1]), Abs(t[2])) > 1

\* A call has returned roads whose block perimeters ran through the origin
\* before the post-processing: the avenue tile (3, 0) is still there, the
\* tiles (0, 0) and (1, 0) are gone.
C3_Witness ==
    /\ apc = "returned"
    /\ limit >= 2
    /\ <<3, 0>> \in result.roads
    /\ <<0, 0>> \in BlockRoads(0, 0, 0)
    /\ <<1, 0>> \in BlockRoads(0, 0, 0)
    /\ <<0, 0>> \notin result.roads
    /\ <<1, 0>> \notin result.roads

\* ---- properties of one generate_houses call (SpecRun) ----
IsHouse(e) == e.kind = "house"
IsTree(e) == e.kind = "tree"

\* The identities of the non-obstacle entries, in output order.
HouseholdNames(entries) ==
    LET hs == SelectSeq(entries, IsHouse)
    IN  [k \in 1..Len(hs) |-> hs[k].username]

\* The identities of [anchor] + roster, in the order generate_houses walks them.
PendingNames(list) == [k \in 1..Len(list) |-> list[k].login]

\* C4: at every step of the slot walk the slots remaining are at least the
\* households still pending, the households output so far are the walked
\* prefix of [anchor] + roster in order, and when the walk ends every
\* household has been output, none dropped or duplicated.
C4_EveryHouseholdPlaced ==
    pc = "walk" =>
        /\ remaining_slots >= remaining_houses
        /\ HouseholdNames(processed_houses) = SubSeq(PendingNames(full_list), 1, stargazer_idx)
        /\ ~WalkContinues => HouseholdNames(processed_houses) = PendingNames(full_list)

\* The walk of a two-entry roster ended on the last slot: every spare slot
\* took a tree and the three households the rest.
C4_Witness ==
    /\ pc = "walk"
    /\ ~WalkContinues
    /\ Len(full_list) = 3
    /\ slot_i = Len(city.slots)
    /\ Len(SelectSeq(processed_houses, IsTree)) = Len(city.slots) - 3
    /\ HouseholdNames(processed_houses) = PendingNames(full_list)

\* C5: the first entry of the output is the anchor household at (0, 0) facing
\* "down", never an obstacle; for the roster [anchor] alone the allocator is
\* asked for 6 slots and the file holds the anchor household and nothing else.
C5_AnchorFirst ==
    /\ (pc = "walk" /\ Len(processed_houses) >= 1) =>
          /\ processed_houses[1].kind = "house"
          /\ processed_houses[1].username = owner_name
          /\ <<processed_houses[1].x, processed_houses[1].y>> = <<0, 0>>
          /\ processed_houses[1].facing = "down"
    /\ (pc = "walk" /\ stargazers = << >>) => Len(city.slots) = 6
    /\ (written_from.by = "main") =>
          /\ Len(houses_file.houses) >= 1
          /\ houses_file.houses[1].kind = "house"
          /\ houses_file.houses[1].username = owner_name
          /\ <<houses_file.houses[1].x, houses_file.houses[1].y>> = <<0, 0>>
          /\ houses_file.houses[1].facing = "down"
    /\ (written_from.by = "main" /\ written_from.roster = << >>) =>
          /\ Len(houses_file.houses) = 1
          /\ SelectSeq(houses_file.houses, IsTree) = << >>

\* The run on the empty roster has written its file: one entry, the anchor.
C5_Witness ==
    /\ written_from.by = "main"
    /\ written_from.roster = << >>
    /\ houses_file.exists
    /\ Len(houses_file.houses) = 1
    /\ houses_file.houses[1].username = owner_name

\* C7: in the file written by a run, every household whose identity is in
\* the contributor set of that run has has_terrace = TRUE, the run in which
\* the identity is first seen included.
C7_ContributorHasTerrace ==
    written_from.by = "main" =>
        \A k \in 1..Len(houses_file.houses) :
            (IsHouse(houses_file.houses[k])
                /\ houses_file.houses[k].username \in written_from.contributors)
            => houses_file.houses[k].has_terrace

\* A first run (no file before it) wrote a contributor's house with a terrace
\* next to a non-contributor's house without one.
C7_Witness ==
    /\ written_from.by = "main"
    /\ written_from.contributors = {"alice"}
    /\ \E k \in 1..Len(houses_file.houses) :
          /\ houses_file.houses[k].username = "alice"
          /\ houses_file.houses[k].has_terrace
    /\ \E k \in 1..Len(houses_file.houses) :
          /\ houses_file.houses[k].username = owner_name
          /\ ~houses_file.houses[k].has_terrace

\* ---- properties of successive runs (Spec) ----
\* A household record without its position binding (x, y, facing).
Profile(h) ==
    [username |-> h.username, color |-> h.color, styles |-> h.styles,
     has_terrace |-> h.has_terrace]

Profiles(entries) == {Profile(entries[k]) : k \in {j \in 1..Len(entries) : IsHouse(entries[j])}}

\* The identities with a household record in a registry.
Identities(entries) == {entries[k].username : k \in {j \in 1..Len(entries) : IsHouse(entries[j])}}

\* The identities live in a run: the roster's, and the anchor.
LiveIdentities(roster) == {roster[k].login : k \in 1..Len(roster)} \cup {owner_name}

\* The step in which main writes the registry of the run in progress.
RunWrites == pc = "walk" /\ pc' = "idle"

\* C6: a run on the same roster and contributor set as the run that wrote
\* the registry on disk writes the same set of household records, position
\* and facing excluded, whatever the obstacle draws of the two runs.
C6_Idempotent ==
    [][(RunWrites
          /\ written_from.by = "main"
          /\ written_from.roster = stargazers
          /\ written_from.contributors = contributors)
       => Profiles(houses_file'.houses) = Profiles(houses_file.houses)]_vars

\* A second run on the same inputs is about to write an output that differs
\* from the registry on disk (other trees, other positions).
C6_Witness ==
    /\ pc = "walk"
    /\ ~WalkContinues
    /\ written_from.by = "main"
    /\ written_from.roster = stargazers
    /\ written_from.contributors = contributors
    /\ Len(stargazers) = 2
    /\ contributors = {"alice"}
    /\ processed_houses # houses_file.houses
    /\ SelectSeq(processed_houses, IsTree) # << >>

\* C8: an identity with a household record in the registry on disk that is
\* absent from the live roster of the next run still has a record in the
\* registry that run writes.
C8_RecordsRetained ==
    [][RunWrites =>
          \A u \in Identities(houses_file.houses) :
              u \notin LiveIdentities(stargazers) => u \in Identities(houses_file'.houses)]_vars

\* C9: an identity that stays in the live roster and has has_terrace = TRUE
\* in the registry on disk has has_terrace = TRUE in the registry the next
\* run writes, whatever that run's contributor set.
C9_TerraceSticky ==
    [][RunWrites =>
          \A k \in 1..Len(houses_file.houses) :
              (IsHouse(houses_file.houses[k])
                  /\ houses_file.houses[k].has_terrace
                  /\ houses_file.houses[k].username \in LiveIdentities(stargazers))
              => \A j \in 1..Len(houses_file'.houses) :
                    (IsHouse(houses_file'.houses[j])
                        /\ houses_file'.houses[j].username = houses_file.houses[k].username)
                    => houses_file'.houses[j].has_terrace]_vars

\* C10: no two household records of the registry on disk carry the same
\* identity.
C10_IdentityUnique ==
    \A a, b \in 1..Len(houses_file.houses) :
        (IsHouse(houses_file.houses[a]) /\ IsHouse(houses_file.houses[b])
            /\ houses_file.houses[a].username = houses_file.houses[b].username)
        => a = b

\* ---- the order of binding (SpecRun) ----
\* The entries of a roster that carry one timestamp, in roster order.
RECURSIVE WithStamp(_, _)
WithStamp(roster, t) ==
    IF roster = << >> THEN << >>
    ELSE IF roster[1].starred_at = t
         THEN <<roster[1]>> \o WithStamp(Tail(roster), t)
         ELSE WithStamp(Tail(roster), t)

\* C11: the households are walked, and so bound to slots, with the anchor
\* first whatever its timestamp and the roster's entries after it in
\* ascending order of starred_at; entries with equal timestamps, and entries
\* without one, keep their roster order.
C11_BoundInJoinOrder ==
    pc = "walk" =>
        /\ full_list[1].login = owner_name
        /\ Len(full_list) = Len(stargazers) + 1
        /\ \A a, b \in 2..Len(full_list) :
              a < b => full_list[a].starred_at <= full_list[b].starred_at
        /\ \A t \in 0..MaxStamp : WithStamp(Tail(full_list), t) = WithStamp(stargazers, t)
        /\ HouseholdNames(processed_houses) = SubSeq(PendingNames(full_list), 1, stargazer_idx)

\* A roster fetched out of order, with two entries of one timestamp, has been
\* walked to its end: the later-starred owner entry is bound after alice.
C11_Witness ==
    /\ pc = "walk"
    /\ ~WalkContinues
    /\ stargazers = <<Entry("owner", 2), Entry("alice", 1)>>
    /\ HouseholdNames(processed_houses) = <<"owner", "alice", "owner">>

\* ---- the capacity generate_houses asks for (SpecCapacity) ----
\* A roster of k followers (entries without starred_at); the capacity depends
\* on the roster's length alone.
CapacityRoster(k) == [j \in 1..k |-> Entry("alice", 0)]

InitCapacity ==
    /\ pc = "start"
    /\ stargazers \in {CapacityRoster(k) : k \in 0..(MaxCount - 1)}
    /\ contributors = {}
    /\ full_list = << >>
    /\ city = NoResult
    /\ processed_houses = << >>
    /\ stargazer_idx = 0
    /\ slot_i = 0
    /\ houses_file = NoFile
    /\ roads_file = NoRoads
    /\ written_from = NotWritten
    /\ AllocIdle
    /\ FetchIdle

\* Lines 336-354: sort, prepend the owner, compute estimated_total and call
\* generate_city_slots with it.
SizeCity ==
    /\ pc = "start"
    /\ apc = "idle"
    /\ full_list' = FullList(stargazers)
    /\ limit' = estimated_total(Len(FullList(stargazers)))
    /\ apc' = "entry"
    /\ pc' = "sizing"
    /\ UNCHANGED <<ast, job, result>>
    /\ UNCHANGED fvars
    /\ UNCHANGED <<stargazers, contributors, city, processed_houses, stargazer_idx,
                   slot_i, houses_file, roads_file, written_from>>

\* Line 354: the call has returned; its tuple is unpacked.
ReceiveCity ==
    /\ pc = "sizing"
    /\ apc = "returned"
    /\ city' = result
    /\ pc' = "sized"
    /\ UNCHANGED <<stargazers, contributors, full_list, processed_houses, stargazer_idx,
                   slot_i, houses_file, roads_file, written_from>>
    /\ UNCHANGED avars
    /\ UNCHANGED fvars

NextCapacity == SizeCity \/ EnterBlocks \/ PlaceBlock \/ FinishSlots \/ ReceiveCity

SpecCapacity == InitCapacity /\ [][NextCapacity]_vars

\* The number of household records of the run: the anchor plus the roster.
RecordCount == Len(stargazers) + 1

\* C12 as stated: the capacity passed to the allocator is
\* max(ceil(1.3 * n), n + 5) for n household records.
C12_CapacityCeil ==
    pc \in {"sizing", "sized"} =>
        limit = Max(CeilDiv(13 * RecordCount, 10), RecordCount + 5)

\* C12 as amended: the capacity passed to the allocator is
\* max(floor(1.3 * n), n + 5) for n household records.
C12_CapacityFloor ==
    pc \in {"sizing", "sized"} =>
        /\ limit = Max((13 * RecordCount) \div 10, RecordCount + 5)
        /\ pc = "sized" => Len(city.slots) = limit

\* The allocator has been called for 17 records, where 1.3 * 17 = 22.1: it
\* was asked for 22 slots, not 23, and returned 22.
C12_Witness ==
    /\ pc = "sized"
    /\ RecordCount = 17
    /\ limit = 22
    /\ Len(city.slots) = 22

\* ---- the edge capacities of generate_city_slots (SpecSlots) ----
\* The closed square ring at radius 2 around the origin.
RingAtRadius2 == {<<x, y>> \in ((0 - 2)..2) \X ((0 - 2)..2) : Max(Abs(x), Abs(y)) = 2}

\* C13: for N = 1 the allocator returns three values like for any other N:
\* the slots [(0, 0)], a facing sequence, and the ring at radius 2 as road set.
C13_CapacityOneHasRing ==
    (apc = "returned" /\ limit = 1) =>
        /\ result.arity = 3
        /\ result.slots = << <<0, 0>> >>
        /\ result.roads = RingAtRadius2

\* C14: a call with N <= 0 never gets past its entry other than by failing
\* with InvalidCapacity, and produces no slots and no road tiles.
C14_NonPositiveRejected ==
    (limit <= 0 /\ apc # "entry") =>
        /\ apc = "invalid_capacity"
        /\ result.slots = << >>
        /\ result.roads = {}

\* ---- the layout as a whole (SpecSlots) ----
\* C15: for every capacity N >= 2 the returned slot positions are pairwise
\* distinct and none of them, the anchor's included, is a tile of the
\* returned road set.
C15_CollisionFree ==
    (apc = "returned" /\ limit >= 2) =>
        /\ \A a, b \in 1..Len(result.slots) : result.slots[a] = result.slots[b] => a = b
        /\ \A a \in 1..Len(result.slots) : result.slots[a] \notin result.roads

\* A call has returned slots of two blocks next to the roads that bound them:
\* the house at (9, -3) lies one tile inside the road tile (10, -3), and the
\* origin, crossed by the block perimeters, holds the anchor and no road.
C15_Witness ==
    /\ apc = "returned"
    /\ limit >= 18
    /\ At(result.slots, 4) = <<9, 0 - 3>>
    /\ <<10, 0 - 3>> \in result.roads
    /\ <<0, 0>> \in BlockRoads(0, 0, 1)
    /\ <<0, 0>> \notin result.roads

\* C17: for every N >= 2 the slot sequence of generate_city_slots(N) is a
\* prefix of the slot sequence of generate_city_slots(N + 1), which is one
\* slot longer.
C17_PrefixStable ==
    (apc = "returned" /\ limit >= 2) =>
        LET longer == generate_city_slots(limit + 1).slots
        IN  /\ Len(longer) = Len(result.slots) + 1
            /\ SubSeq(longer, 1, Len(result.slots)) = result.slots

\* A call with N = 17 has returned; the call with N = 18 adds the first cell
\* of the next quadrant's block after its 17 slots.
C17_Witness ==
    /\ apc = "returned"
    /\ limit = 17
    /\ Len(result.slots) = 17
    /\ At(result.slots, 16) = <<9, 0 - 9>>
    /\ At(generate_city_slots(18).slots, 17) = <<0 - 3, 0 - 3>>

\* The consequence for add_user (checked under Spec): the step in which
\* add_user rewrites the registry leaves the position of every entry that was
\* in it unchanged and gives the last entry the next slot.
AddUserKeepsPositions ==
    [][(pc = "idle" /\ pc' = "idle" /\ houses_file' # houses_file) =>
          /\ Len(houses_file'.houses) > Len(houses_file.houses)
          /\ \A k \in 1..Len(houses_file.houses) :
                /\ houses_file'.houses[k].x = houses_file.houses[k].x
                /\ houses_file'.houses[k].y = houses_file.houses[k].y
                /\ houses_file'.houses[k].username = houses_file.houses[k].username]_vars

\* ---- get_stargazers and get_followers (SpecFetch) ----
\* The two functions run the same loop; get_followers wraps each user of a
\* page as {'user': user}.  A page of the server is modelled by its length
\* (1..MaxPageLen; the server sends at most per_page entries, a number the
\* loop never branches on); entry k of page p is identified by (p, k).
Item(who, p, k) == [page |-> p, index |-> k, wrapped |-> who = "get_followers"]

PageData(who, p, n) == [k \in 1..n |-> Item(who, p, k)]

\* data[:remaining]
Truncate(data, remaining) == SubSeq(data, 1, Min(Len(data), remaining))

\* while attempts < 3
RetriesLeftOneMore(a) == a <= 3
RetriesLeft(a) == a < 3

\* urlopen calls made so far for page p
Requested(p) == IF p <= Len(requests) THEN requests[p] ELSE 0

Bump(reqs, p) == IF p > Len(reqs) THEN Append(reqs, 1) ELSE [reqs EXCEPT ![p] = @ + 1]

Returned(roster) == [returned |-> TRUE, roster |-> roster]

InitFetch ==
    /\ fetcher \in {"get_stargazers", "get_followers"}
    /\ flimit \in 0..MaxFetch
    /\ fpc = "loop"
    /\ page = 1
    /\ attempts = 0
    /\ success = FALSE
    /\ fetched = << >>
    /\ requests = << >>
    /\ roster_out = NotReturned
    /\ MainIdle
    /\ AllocIdle

\* Lines 26-28: the test of the outer loop; past the limit the function
\* returns (line 68).
OuterTest ==
    /\ fpc = "loop"
    /\ IF Len(fetched) < flimit
       THEN /\ attempts' = 0
            /\ success' = FALSE
            /\ fpc' = "try"
            /\ UNCHANGED roster_out
       ELSE /\ fpc' = "done"
            /\ roster_out' = Returned(fetched)
            /\ UNCHANGED <<attempts, success>>
    /\ UNCHANGED <<fetcher, flimit, page, fetched, requests>>
    /\ UNCHANGED avars
    /\ UNCHANGED mvars

\* Lines 30-33, 58-61: the request of the page raises.
RequestFails ==
    /\ fpc = "try"
    /\ RetriesLeft(attempts)
    /\ requests' = Bump(requests, page)
    /\ attempts' = attempts + 1
    /\ UNCHANGED <<fetcher, flimit, fpc, page, success, fetched, roster_out>>
    /\ UNCHANGED avars
    /\ UNCHANGED mvars

\* Lines 30-42: the page comes back empty: end of results, return.
RequestEmpty ==
    /\ fpc = "try"
    /\ RetriesLeft(attempts)
    /\ requests' = Bump(requests, page)
    /\ success' = TRUE
    /\ fpc' = "done"
    /\ roster_out' = Returned(fetched)
    /\ UNCHANGED <<fetcher, flimit, page, attempts, fetched>>
    /\ UNCHANGED avars
    /\ UNCHANGED mvars

\* Lines 30-56: the page comes back with n entries.
RequestData(n) ==
    /\ fpc = "try"
    /\ RetriesLeft(attempts)
    /\ requests' = Bump(requests, page)
    /\ fetched' = fetched \o Truncate(PageData(fetcher, page, n), flimit - Len(fetched))
    /\ success' = TRUE
    /\ page' = page + 1
    /\ fpc' = "after"
    /\ UNCHANGED <<fetcher, flimit, attempts, roster_out>>
    /\ UNCHANGED avars
    /\ UNCHANGED mvars

\* Lines 30, 63-68: the inner loop ran out of attempts; success is False, the
\* outer loop breaks and the function returns what it has.
GiveUp ==
    /\ fpc = "try"
    /\ ~RetriesLeft(attempts)
    /\ fpc' = "done"
    /\ roster_out' = Returned(fetched)
    /\ UNCHANGED <<fetcher, flimit, page, attempts, success, fetched, requests>>
    /\ UNCHANGED avars
    /\ UNCHANGED mvars

\* Lines 63-68: after a page that succeeded: break and return at the limit,
\* else go round the outer loop.
AfterPage ==
    /\ fpc = "after"
    /\ IF ~success \/ Len(fetched) >= flimit
       THEN /\ fpc' = "done"
            /\ roster_out' = Returned(fetched)
       ELSE /\ fpc' = "loop"
            /\ UNCHANGED roster_out
    /\ UNCHANGED <<fetcher, flimit, page, attempts, success, fetched, requests>>
    /\ UNCHANGED avars
    /\ UNCHANGED mvars

NextFetch ==
    \/ OuterTest
    \/ RequestFails
    \/ RequestEmpty
    \/ \E n \in 1..MaxPageLen : RequestData(n)
    \/ GiveUp
    \/ AfterPage

SpecFetch == InitFetch /\ [][NextFetch]_vars

\* A roster made of whole pages 1, 2, ... in order, each from its first entry
\* on, with no page and no entry skipped or repeated.
PagesInOrder(roster) ==
    /\ roster # << >> => (roster[1].page = 1 /\ roster[1].index = 1)
    /\ \A j \in 1..(Len(roster) - 1) :
          \/ (roster[j + 1].page = roster[j].page /\ roster[j + 1].index = roster[j].index + 1)
          \/ (roster[j + 1].page = roster[j].page + 1 /\ roster[j + 1].index = 1)

\* The call has returned after a page failed on its last attempt.
GaveUp == roster_out.returned /\ ~success /\ attempts > 0

\* C16: each page is requested at most 3 times, and only while it is the
\* current page and has not succeeded; once a page has failed 3 times in a
\* row no further page is requested and the function returns exactly the
\* entries of the earlier pages, in order; the returned roster never has more
\* than limit entries.
C16_BoundedRetries ==
    [][/\ \A p \in 1..(MaxFetch + 2) :
             /\ Requested(p)' <= 3
             /\ Requested(p)' # Requested(p) => (p = page /\ ~roster_out.returned
                                                  /\ Requested(p)' = attempts + 1)
       /\ GaveUp' =>
             /\ Requested(page)' = 3
             /\ \A q \in 1..(MaxFetch + 2) : q > page' => Requested(q)' = 0
             /\ roster_out'.roster = fetched'
             /\ PagesInOrder(roster_out'.roster)
             /\ \A j \in 1..Len(roster_out'.roster) : roster_out'.roster[j].page < page'
       /\ roster_out'.returned =>
             /\ Len(roster_out'.roster) <= flimit
             /\ roster_out'.roster = fetched']_vars

\* A call with limit 3 took page 1 on its third attempt, then failed page 2
\* three times and returned the partial roster of page 1.
C16_Witness ==
    /\ roster_out.returned
    /\ ~success
    /\ flimit = 3
    /\ page = 2
    /\ requests = <<3, 3>>
    /\ Len(roster_out.roster) = 2
    /\ roster_out.roster[2].page = 1

====
